---------------------------- MODULE Spec2Model ----------------------------
(***************************************************************************)
(* A model of objregex.py: a regular-expression engine over sequences of   *)
(* arbitrary objects.  Python values are modelled as tagged records: the   *)
(* field "kind" names the Python type of the value.                        *)
(***************************************************************************)
EXTENDS Integers, Sequences, FiniteSets

(***************************************************************************)
(* Bounds of the model.                                                    *)
(***************************************************************************)
MaxLen == 3     \* longest input sequence
MaxPat == 2     \* longest matcher list
MaxN == 2       \* largest min_n / max_n given to repeat
MaxOver == 2    \* how far past len(items) a drawn state's end may lie
MaxPatFair == 1 \* longest matcher list of the runs checked for termination
MaxLenFair == 1 \* longest input sequence of the runs checked for termination

Values == {1, 2}    \* the items of the input sequences

(***************************************************************************)
(* Python values.                                                          *)
(***************************************************************************)
None == [kind |-> "None"]
PyBool(b) == [kind |-> "bool", truth |-> b]
PyInt(n) == [kind |-> "int", val |-> n]
\* the exception NoMoreItems, as the outcome of a call that raises it
NoMoreItems == [kind |-> "NoMoreItems"]
\* a call that raises hands the exception to its caller: Raised(v) holds of the
\* outcome v of such a call
Raised(v) == v = NoMoreItems
\* the outcome "this function was not called yet"
NotCalled == [kind |-> "NotCalled"]
\* the outcome of next() on an exhausted generator
StopIteration == [kind |-> "StopIteration"]

(***************************************************************************)
(* class Match.  The field id is the identity of the Python object: the    *)
(* class defines __equals__, which Python never calls, so that == between  *)
(* two Match objects is the default comparison by identity.  An object     *)
(* made from another one gets the next id.                                 *)
(***************************************************************************)
Match(items, start_, end_, id) ==
    [kind |-> "Match", items |-> items, start |-> start_, end |-> end_, id |-> id]

isinstance_Match(v) == v.kind = "Match"

has_next(self) == self.end < Len(self.items)

next(self) ==
    IF self.end >= Len(self.items) THEN NoMoreItems ELSE PyInt(self.items[self.end + 1])

matched(self) ==
    [k \in 1..(IF self.end > Len(self.items) THEN Len(self.items) ELSE self.end) - self.start
        |-> self.items[self.start + k]]

\* advance that starts the new match where the old one ended
advance_from_end(self, n) == Match(self.items, self.end, self.end + n, self.id + 1)

advance(self, n) == Match(self.items, self.start, self.end + n, self.id + 1)

\* new_match == match in repeat: object identity
Match_eq(a, b) == isinstance_Match(a) /\ isinstance_Match(b) /\ a.id = b.id

\* "if match:" -- Match has neither __bool__ nor __len__, so every Match is true
Truthy(v) == v # None

(***************************************************************************)
(* The matchers: a literal (not callable) or a closure made by one of the  *)
(* user functions.                                                         *)
(***************************************************************************)
Lit(v) == [kind |-> "literal", val |-> v]
any == [kind |-> "any"]
start == [kind |-> "start"]
end == [kind |-> "end"]
optional(matcher) == [kind |-> "optional", matcher |-> matcher]
repeat(matcher, min_n, max_n) ==
    [kind |-> "repeat", matcher |-> matcher, min_n |-> min_n, max_n |-> max_n]
one_or_more(matcher) == repeat(matcher, 1, None)
zero_or_more(matcher) == repeat(matcher, 0, None)

\* The caller's own matchers.
\* lambda m: 0 < m.next < 2 -- a test of the next item, as in the module's tests
next_is_low == [kind |-> "next_is_low"]
\* lambda m: result -- the same result whatever the state
returns(result) == [kind |-> "returns", result |-> result]
\* lambda m: Match(m.items, m.start, m.end) -- a new state equal to the given one
same_span == [kind |-> "same_span"]
\* lambda m: Match(m.items, m.start, m.start) -- a new state that gives the items back
rewind == [kind |-> "rewind"]

callable(m) == m.kind # "literal"

\* the value Python uses when a bool or an int is added to match.end
AsCount(result) == IF result.kind = "bool" THEN (IF result.truth THEN 1 ELSE 0) ELSE result.val

\* "result is 0" in place of "result == 0": False is not the object 0
IsZero_identity(result) == result.kind = "int" /\ result.val = 0

\* result == 0  (False == 0 holds in Python)
IsZero(result) == result.kind \in {"bool", "int"} /\ AsCount(result) = 0

any_lambda(match) == PyBool(TRUE)
start_lambda(match) == PyBool(match.end = 0)
end_lambda(match) == PyBool(match.end = Len(match.items))

next_is_low_lambda(match) ==
    LET item == next(match)
    IN  IF Raised(item) THEN NoMoreItems ELSE PyBool(0 < item.val /\ item.val < 2)
returns_lambda(result, match) == result
same_span_lambda(match) == Match(match.items, match.start, match.end, match.id + 1)
rewind_lambda(match) == Match(match.items, match.start, match.start, match.id + 1)

RECURSIVE _test_one(_, _)
RECURSIVE CallMatcher(_, _)
RECURSIVE optional_wrapper(_, _)
RECURSIVE repeat_wrapper(_, _, _, _)
RECURSIVE repeat_min(_, _, _)
RECURSIVE repeat_more(_, _, _)

\* optional_wrapper with "return new_match" in place of the conditional
optional_wrapper_strict(matcher, old_match) == _test_one(matcher, old_match)

optional_wrapper(matcher, old_match) ==
    LET new_match == _test_one(matcher, old_match)
    IN  IF Raised(new_match) THEN new_match
        ELSE IF new_match = None THEN old_match ELSE new_match

\* repeat_min with "break" in place of "return None"
repeat_min_break(matcher, n, match) ==
    IF n <= 0 THEN match
    ELSE LET m == _test_one(matcher, match)
         IN  IF Raised(m) THEN m
             ELSE IF m = None THEN match ELSE repeat_min(matcher, n - 1, m)

\* the first loop of repeat's wrapper: n required applications
repeat_min(matcher, n, match) ==
    IF n <= 0 THEN match
    ELSE LET m == _test_one(matcher, match)
         IN  IF Raised(m) THEN m
             ELSE IF m = None THEN None ELSE repeat_min(matcher, n - 1, m)

\* the second loop of repeat's wrapper: at most n more applications
repeat_more(matcher, n, match) ==
    IF n <= 0 THEN match
    ELSE LET new_match == _test_one(matcher, match)
         IN  IF Raised(new_match) THEN new_match
             ELSE IF new_match = None \/ Match_eq(new_match, match) THEN match
             ELSE repeat_more(matcher, n - 1, new_match)

repeat_wrapper(matcher, min_n, max_n, match) ==
    LET m == repeat_min(matcher, min_n, match)
    IN  IF Raised(m) \/ m = None THEN m
        ELSE repeat_more(matcher,
                         IF max_n # None THEN max_n.val - min_n
                                         ELSE Len(m.items) - m.end,
                         m)

\* next_matcher(match): the value returned, or NoMoreItems when it raises
CallMatcher(next_matcher, match) ==
    CASE next_matcher.kind = "any" -> any_lambda(match)
      [] next_matcher.kind = "start" -> start_lambda(match)
      [] next_matcher.kind = "end" -> end_lambda(match)
      [] next_matcher.kind = "optional" -> optional_wrapper(next_matcher.matcher, match)
      [] next_matcher.kind = "repeat" ->
            repeat_wrapper(next_matcher.matcher, next_matcher.min_n,
                           next_matcher.max_n, match)
      [] next_matcher.kind = "next_is_low" -> next_is_low_lambda(match)
      [] next_matcher.kind = "returns" -> returns_lambda(next_matcher.result, match)
      [] next_matcher.kind = "same_span" -> same_span_lambda(match)
      [] next_matcher.kind = "rewind" -> rewind_lambda(match)

\* _test_one without the try/except around the call of the matcher
_test_one_no_except(next_matcher, match) ==
    IF ~callable(next_matcher)
    THEN IF has_next(match) /\ next(match) = PyInt(next_matcher.val)
         THEN advance(match, 1) ELSE None
    ELSE LET result == CallMatcher(next_matcher, match)
         IN  IF Raised(result) THEN result
             ELSE IF isinstance_Match(result) THEN result
             ELSE IF IsZero(result) \/ result = None THEN None
             ELSE advance(match, AsCount(result))

_test_one(next_matcher, match) ==
    IF ~callable(next_matcher)
    THEN IF has_next(match) /\ next(match) = PyInt(next_matcher.val)
         THEN advance(match, 1) ELSE None
    ELSE LET raw == CallMatcher(next_matcher, match)
             result == IF raw = NoMoreItems THEN None ELSE raw
         IN  IF isinstance_Match(result) THEN result
             ELSE IF IsZero(result) \/ result = None THEN None
             ELSE advance(match, AsCount(result))

\* the loop of _general_match over matchers[i..]
RECURSIVE _general_match_loop(_, _, _)
\* the loop with "continue" in place of "break"
_general_match_loop_continue(matchers, i, match) ==
    IF i > Len(matchers) THEN match
    ELSE LET new_match == _test_one(matchers[i], match)
         IN  IF Raised(new_match) THEN new_match
             ELSE _general_match_loop(matchers, i + 1,
                                      IF new_match = None THEN match ELSE new_match)

_general_match_loop(matchers, i, match) ==
    IF i > Len(matchers) THEN match
    ELSE LET new_match == _test_one(matchers[i], match)
         IN  IF Raised(new_match) THEN new_match
             ELSE IF new_match = None THEN match
             ELSE _general_match_loop(matchers, i + 1, new_match)

_general_match(matchers, items, start_) ==
    _general_match_loop(matchers, 1, Match(items, start_, start_, 0))

fullmatch(matchers, items) ==
    LET match == _general_match(matchers, items, 0)
    IN  IF Raised(match) THEN match
        ELSE IF Truthy(match) /\ ~has_next(match) THEN match ELSE None

(***************************************************************************)
(* The generator findall.  Its only local kept across a yield is start.    *)
(* findall_next resumes it at the top of the while loop and runs it to the *)
(* next yield or to its end, as the built-in next() does.                  *)
(***************************************************************************)
RECURSIVE findall_next(_, _, _)

\* findall_next with "start = match.start + 1" in place of "start = match.end"
findall_next_overlap(matchers, items, start_) ==
    IF ~(start_ < Len(items)) THEN [yield |-> StopIteration, start |-> start_]
    ELSE LET match == _general_match(matchers, items, start_)
         IN  IF Raised(match) THEN [yield |-> match, start |-> start_]
             ELSE IF Truthy(match) THEN [yield |-> match, start |-> match.start + 1]
             ELSE findall_next(matchers, items, start_ + 1)

findall_next(matchers, items, start_) ==
    IF ~(start_ < Len(items)) THEN [yield |-> StopIteration, start |-> start_]
    ELSE LET match == _general_match(matchers, items, start_)
         IN  IF Raised(match) THEN [yield |-> match, start |-> start_]
             ELSE IF Truthy(match) THEN [yield |-> match, start |-> match.end]
             ELSE findall_next(matchers, items, start_ + 1)

\* search as one attempt at offset 0, without the generator
search_at_zero(matchers, items) == _general_match(matchers, items, 0)

search(matchers, items) ==
    LET first_ == findall_next(matchers, items, 0).yield
    IN  IF first_ = StopIteration THEN None ELSE first_

(***************************************************************************)
(* The inputs.                                                             *)
(***************************************************************************)
SeqsUpTo(S, n) == UNION {[1..k -> S] : k \in 0..n}

Literals == {Lit(v) : v \in Values}
Base == Literals \cup {any, start, end}

\* the matchers of the lists given to fullmatch, search and findall
QueryMatchers ==
    Base \cup {optional(Lit(1)), optional(any),
               one_or_more(Lit(1)), zero_or_more(Lit(2)),
               repeat(any, 1, PyInt(MaxN)),
               next_is_low, one_or_more(next_is_low)}

Patterns == SeqsUpTo(QueryMatchers, MaxPat)
Inputs == SeqsUpTo(Values, MaxLen)

\* the matchers evaluated one at a time
Counts == 0..MaxN
RepeatsOf(S) ==
    {repeat(m, mn, mx) : m \in S, mn \in Counts, mx \in {None} \cup {PyInt(n) : n \in Counts}}
Optionals == {optional(m) : m \in Base}
Results == {None, PyBool(TRUE), PyBool(FALSE)} \cup {PyInt(n) : n \in Counts}
Predicates == {next_is_low, same_span, rewind} \cup {returns(r) : r \in Results}
StepMatchers ==
    Base \cup Optionals \cup Predicates
         \cup RepeatsOf(Base \cup Optionals \cup Predicates)
         \cup {optional(m) : m \in RepeatsOf(Literals) \cup Predicates}

\* the states a matcher can be given: any() steps past the end of the sequence
StatesOver(S) ==
    UNION {{Match(S, s, e, 0) : e \in s..(Len(S) + MaxOver)} : s \in 0..Len(S)}

(***************************************************************************)
(* The state: a caller holds one matcher list and one sequence, calls      *)
(* fullmatch and search on them, and iterates one findall generator.       *)
(***************************************************************************)
VARIABLES
    matchers,     \* the matcher list
    items,        \* the input sequence
    fm,           \* what fullmatch(matchers, items) returned
    sr,           \* what search(matchers, items) returned
    gen,          \* the generator: "suspended" | "exhausted" | "raised"
    gen_start,    \* the generator's local variable start
    first,        \* the first match the generator yielded
    prev,         \* the match yielded before the last one
    last,         \* the last match the generator yielded
    parity,       \* the number of matches yielded so far, modulo 2
    step_in,      \* the state given to a direct call of _test_one
    step_out      \* what _test_one(matchers[1], step_in) returned

vars == <<matchers, items, fm, sr, gen, gen_start, first, prev, last, parity,
          step_in, step_out>>

Init ==
    /\ matchers \in Patterns
    /\ items \in Inputs
    /\ fm = NotCalled
    /\ sr = NotCalled
    /\ gen = "suspended"
    /\ gen_start = 0
    /\ first = None
    /\ prev = None
    /\ last = None
    /\ parity = 0
    /\ step_in = None
    /\ step_out = NotCalled

Fullmatch ==
    /\ fm = NotCalled
    /\ fm' = fullmatch(matchers, items)
    /\ UNCHANGED <<matchers, items, sr, gen, gen_start, first, prev, last, parity,
                   step_in, step_out>>

Search ==
    /\ sr = NotCalled
    /\ sr' = search(matchers, items)
    /\ UNCHANGED <<matchers, items, fm, gen, gen_start, first, prev, last, parity,
                   step_in, step_out>>

\* next(g) on the generator g = findall(matchers, items)
FindallNext ==
    /\ gen = "suspended"
    /\ \E r \in {findall_next(matchers, items, gen_start)} :
           /\ gen_start' = r.start
           /\ IF r.yield = StopIteration \/ Raised(r.yield)
              THEN /\ gen' = IF Raised(r.yield) THEN "raised" ELSE "exhausted"
                   /\ UNCHANGED <<first, prev, last, parity>>
              ELSE /\ gen' = "suspended"
                   /\ first' = IF first = None THEN r.yield ELSE first
                   /\ prev' = last
                   /\ last' = r.yield
                   /\ parity' = (parity + 1) % 2
    /\ UNCHANGED <<matchers, items, fm, sr, step_in, step_out>>

Next == Fullmatch \/ Search \/ FindallNext

Spec == Init /\ [][Next]_vars

\* The caller iterates the generator to exhaustion: a loop "for m in findall(...)"
\* calls next() again as long as the generator has not ended.
InitFair == Init /\ Len(matchers) <= MaxPatFair /\ Len(items) <= MaxLenFair

FairSpec == InitFair /\ [][Next]_vars /\ WF_vars(FindallNext)

TypeOK ==
    /\ matchers \in Patterns \cup {<<m>> : m \in StepMatchers}
    /\ items \in Inputs
    /\ gen \in {"suspended", "exhausted", "raised"}
    /\ gen_start \in Nat
    /\ fm.kind \in {"NotCalled", "None", "Match", "NoMoreItems"}
    /\ sr.kind \in {"NotCalled", "None", "Match", "NoMoreItems"}
    /\ \A m \in {first, prev, last} : m.kind \in {"None", "Match"}
    /\ parity \in {0, 1}
    /\ step_in.kind \in {"None", "Match"}
    /\ step_out.kind \in {"NotCalled", "None", "Match", "NoMoreItems"}

(***************************************************************************)
(* A direct evaluation of one matcher on one state, as _general_match, the *)
(* combinators and the caller's own matchers do it.                        *)
(***************************************************************************)
InitStep ==
    /\ items \in Inputs
    /\ matchers \in {<<m>> : m \in StepMatchers}
    /\ step_in \in StatesOver(items)
    /\ step_out = NotCalled
    /\ fm = NotCalled
    /\ sr = NotCalled
    /\ gen = "suspended"
    /\ gen_start = 0
    /\ first = None
    /\ prev = None
    /\ last = None
    /\ parity = 0

TestOne ==
    /\ step_in # None
    /\ step_out = NotCalled
    /\ step_out' = _test_one(matchers[1], step_in)
    /\ UNCHANGED <<matchers, items, fm, sr, gen, gen_start, first, prev, last, parity,
                   step_in>>

NextStep == TestOne

SpecStep == InitStep /\ [][NextStep]_vars

(***************************************************************************)
(* Notions the properties are stated with.                                 *)
(***************************************************************************)
Min(S) == CHOOSE x \in S : \A y \in S : x <= y

AllLiterals(M) == \A k \in 1..Len(M) : M[k].kind = "literal"
LiteralValues(M) == [k \in 1..Len(M) |-> M[k].val]

\* L occurs in S at offset i
OccursAt(L, S, i) == i + Len(L) <= Len(S) /\ \A k \in 1..Len(L) : S[i + k] = L[k]
Occurrences(L, S) == {i \in 0..Len(S) : OccursAt(L, S, i)}

Prefix(M, k) == SubSeq(M, 1, k)

\* every matcher of M succeeds when M is applied at offset i of S
AllSucceed(M, S, i) ==
    \A k \in 1..Len(M) : _test_one(M[k], _general_match(Prefix(M, k - 1), S, i)) # None

ValidMatch(m) == 0 <= m.start /\ m.start <= m.end /\ m.end <= Len(m.items)

SameSpan(a, b) == a.start = b.start /\ a.end = b.end

\* how many of at most n consecutive applications of m from state s succeed
RECURSIVE Run(_, _, _)
Run(m, s, n) ==
    IF n <= 0 THEN 0
    ELSE LET r == _test_one(m, s)
         IN  IF r = None THEN 0 ELSE 1 + Run(m, r, n - 1)

(***************************************************************************)
(* C1: for a non-empty list L of literals, search(L, S) returns the match  *)
(* that starts at the smallest offset where L occurs in S and ends         *)
(* len(L) items later, and returns None when L occurs nowhere in S.        *)
(***************************************************************************)
C1_SearchFindsFirstOccurrence ==
    (sr # NotCalled /\ Len(matchers) > 0 /\ AllLiterals(matchers)) =>
        LET occ == Occurrences(LiteralValues(matchers), items)
        IN  IF occ = {} THEN sr = None
            ELSE /\ sr # None
                 /\ sr.start = Min(occ)
                 /\ sr.end = Min(occ) + Len(matchers)

(***************************************************************************)
(* C2: for a list L of literals, fullmatch(L, S) returns a match, with     *)
(* start 0 and end len(S), exactly when L and S are equal item by item.    *)
(***************************************************************************)
C2_FullmatchIffEqual ==
    (fm # NotCalled /\ AllLiterals(matchers)) =>
        /\ (fm # None) <=> (LiteralValues(matchers) = items)
        /\ fm # None => (fm.start = 0 /\ fm.end = Len(items))

(***************************************************************************)
(* C3: a findall generator that is iterated to exhaustion terminates.      *)
(***************************************************************************)
C3_FindallTerminates == <>(gen = "exhausted")

(***************************************************************************)
(* C4: findall yields a match for a scan offset only if every matcher of   *)
(* the list succeeded at that offset; otherwise it yields nothing for the  *)
(* offset and goes on at offset + 1.                                       *)
(***************************************************************************)
C4_YieldsOnlyWhenAllSucceed ==
    \A m \in {first, prev, last} :
        m # None => AllSucceed(matchers, items, m.start)

(***************************************************************************)
(* C5: a match returned by fullmatch ends exactly at len(S); when the      *)
(* state _general_match returns ends anywhere else, fullmatch returns None.*)
(***************************************************************************)
C5_FullmatchEndsAtLen ==
    fm # NotCalled =>
        /\ fm # None => fm.end = Len(items)
        /\ _general_match(matchers, items, 0).end # Len(items) => fm = None

(***************************************************************************)
(* C6: every Match state of an evaluation of fullmatch, search or findall  *)
(* has 0 <= start <= end <= len(items): the states _general_match goes     *)
(* through at the offsets it was run at, and the matches handed out.       *)
(***************************************************************************)
C6_MatchStatesInRange ==
    /\ \A m \in {fm, sr, first, prev, last} : m.kind = "Match" => ValidMatch(m)
    /\ (fm # NotCalled \/ sr # NotCalled \/ last # None) =>
          \A k \in 0..Len(matchers) :
              ValidMatch(_general_match(Prefix(matchers, k), items, 0))
    /\ last # None =>
          \A k \in 0..Len(matchers) :
              ValidMatch(_general_match(Prefix(matchers, k), items, last.start))

(***************************************************************************)
(* C7: each match findall yields starts at or after the end of the match   *)
(* it yielded just before.                                                 *)
(***************************************************************************)
C7_YieldsDoNotOverlap ==
    (prev # None /\ last # None) => last.start >= prev.end

C7_Witness ==
    /\ prev # None /\ last # None
    /\ prev.end > prev.start
    /\ last.end > last.start
    /\ last.start >= prev.end

(***************************************************************************)
(* C8: fullmatch(M, S) returns a match exactly when search(M + [end()], S) *)
(* returns a match with start 0 whose end is len(S).                       *)
(***************************************************************************)
C8_FullmatchIffSearchWithEnd ==
    fm # NotCalled =>
        ((fm # None) <=>
            LET r == search(Append(matchers, end), items)
            IN  r # None /\ r.start = 0 /\ r.end = Len(items))

(***************************************************************************)
(* C9: search(M, S) returns the first match the generator findall(M, S)    *)
(* yields, and None exactly when the generator yields nothing.             *)
(***************************************************************************)
C9_SearchIsFirstOfFindall ==
    sr # NotCalled =>
        /\ first # None => (sr # None /\ SameSpan(sr, first) /\ sr.items = first.items)
        /\ (gen = "exhausted" /\ first = None) => sr = None
        /\ sr = None => first = None

C9_Witness ==
    /\ sr # NotCalled /\ sr # None
    /\ first # None
    /\ SameSpan(sr, first)
    /\ sr.end > sr.start

(***************************************************************************)
(* C10: repeat(m, min_n = k), evaluated by _test_one on a state from which *)
(* fewer than k consecutive applications of m succeed, yields None.        *)
(***************************************************************************)
C10_RepeatBelowMinFails ==
    (step_out # NotCalled /\ matchers[1].kind = "repeat") =>
        LET r == matchers[1]
        IN  Run(r.matcher, step_in, r.min_n) < r.min_n => step_out = None

C10_Witness ==
    /\ step_out = None
    /\ matchers[1].kind = "repeat"
    /\ matchers[1].min_n = 2
    /\ Run(matchers[1].matcher, step_in, 2) = 1

(***************************************************************************)
(* Notions of the properties of single matchers.                           *)
(***************************************************************************)
\* a literal or a matcher made by the user functions from literals
RECURSIVE Builtin(_)
Builtin(m) ==
    \/ m.kind \in {"literal", "any", "start", "end"}
    \/ m.kind \in {"optional", "repeat"} /\ Builtin(m.matcher)

\* as Builtin, with the caller's matchers that return a bool, a count or None
RECURSIVE CountOnly(_)
CountOnly(m) ==
    \/ m.kind \in {"literal", "any", "start", "end", "next_is_low", "returns"}
    \/ m.kind \in {"optional", "repeat"} /\ CountOnly(m.matcher)

\* out is a match over the items of s, with the start of s, n items longer
Advanced(s, out, n) ==
    /\ out.kind = "Match"
    /\ out.items = s.items
    /\ out.start = s.start
    /\ out.end = s.end + n

\* the test made by next_is_low
Low(x) == 0 < x /\ x < 2

\* the last index of the run of Low items of S that index i begins or lies in
RECURSIVE LowRunEnd(_, _)
LowRunEnd(S, i) == IF i + 1 <= Len(S) /\ Low(S[i + 1]) THEN LowRunEnd(S, i + 1) ELSE i

\* how many items of S from index i on (1-based) a one-item matcher m matches
RECURSIVE RunLength(_, _, _)
RunLength(m, S, i) ==
    IF i > Len(S) THEN 0
    ELSE IF m.kind = "any" \/ (m.kind = "literal" /\ S[i] = m.val)
         THEN 1 + RunLength(m, S, i + 1)
         ELSE 0

\* the state after the first j matchers of M applied in order from offset st of S,
\* None when one of them fails
RECURSIVE StateAfter(_, _, _, _)
StateAfter(M, S, st, j) ==
    IF j = 0 THEN Match(S, st, st, 0)
    ELSE LET before == StateAfter(M, S, st, j - 1)
         IN  IF before = None THEN None ELSE _test_one(M[j], before)

\* how many matchers of M succeed in order before the first one that fails
LeadingSuccesses(M, S, st) ==
    CHOOSE n \in 0..Len(M) :
        /\ \A j \in 0..n : StateAfter(M, S, st, j) # None
        /\ n < Len(M) => StateAfter(M, S, st, n + 1) = None

Called == step_out # NotCalled

(***************************************************************************)
(* C11: optional(m), for m a literal or a built-in combinator, evaluated   *)
(* on a state s always succeeds, with an end at or after the end of s;     *)
(* when m fails on s the result is s itself.                               *)
(***************************************************************************)
C11_OptionalNeverFails ==
    (Called /\ matchers[1].kind = "optional" /\ Builtin(matchers[1].matcher)) =>
        /\ step_out.kind = "Match"
        /\ step_out.end >= step_in.end
        /\ _test_one(matchers[1].matcher, step_in) = None => step_out = step_in

C11_Witness ==
    /\ Called
    /\ matchers[1].kind = "optional" /\ Builtin(matchers[1].matcher)
    /\ _test_one(matchers[1].matcher, step_in) = None
    /\ has_next(step_in)
    /\ step_out = step_in

(***************************************************************************)
(* C12: any(), evaluated by _test_one, succeeds and consumes exactly one   *)
(* item when the state has a next item, and fails when the state's end is  *)
(* len(items).                                                             *)
(***************************************************************************)
C12_AnyConsumesOneOrFails ==
    (Called /\ matchers[1] = any) =>
        /\ has_next(step_in) => Advanced(step_in, step_out, 1)
        /\ step_in.end = Len(items) => step_out = None

(***************************************************************************)
(* C13: start() succeeds exactly on a state with end 0 and end() exactly   *)
(* on a state with end len(items), and the state they succeed with has the *)
(* start and the end of the state they were given.                         *)
(***************************************************************************)
C13_AnchorsAreZeroWidth ==
    (Called /\ matchers[1] \in {start, end}) =>
        /\ matchers[1] = start => ((step_out # None) <=> (step_in.end = 0))
        /\ matchers[1] = end => ((step_out # None) <=> (step_in.end = Len(items)))
        /\ step_out # None => Advanced(step_in, step_out, 0)

(***************************************************************************)
(* C14: a matcher that reads the next item of a state at the end of the    *)
(* sequence fails like any other matcher, and no call of fullmatch, search *)
(* or findall ends with NoMoreItems.                                       *)
(***************************************************************************)
C14_NoMoreItemsNeverSurfaces ==
    /\ ~Raised(fm)
    /\ ~Raised(sr)
    /\ gen # "raised"
    /\ fm # NotCalled =>
          \A k \in 1..Len(matchers) :
              LET s == _general_match(Prefix(matchers, k - 1), items, 0)
              IN  (matchers[k] = next_is_low /\ ~Raised(s) /\ ~has_next(s))
                      => _test_one(matchers[k], s) = None

C14_Witness ==
    /\ fm.kind = "Match"
    /\ sr.kind = "Match"
    /\ gen = "exhausted"
    /\ Len(matchers) = 2
    /\ matchers[2] = next_is_low
    /\ _test_one(matchers[1], Match(items, 0, 0, 0)) # None
    /\ _general_match(Prefix(matchers, 1), items, 0).end = Len(items)

(***************************************************************************)
(* C15: search([one_or_more(p)], S) returns the match of the first maximal *)
(* non-empty run of items that satisfy p, and None when no item does.      *)
(***************************************************************************)
C15_SearchFindsFirstRun ==
    (sr # NotCalled /\ matchers = <<one_or_more(next_is_low)>>) =>
        LET lows == {i \in 1..Len(items) : Low(items[i])}
        IN  IF lows = {} THEN sr = None
            ELSE /\ sr # None
                 /\ sr.start = Min(lows) - 1
                 /\ sr.end = LowRunEnd(items, Min(lows))

(***************************************************************************)
(* C16: _general_match applies the matchers in list order and stops at the *)
(* first one that fails; it always returns a state, the one the last       *)
(* successful matcher produced, or the zero-width state at start when the  *)
(* first matcher fails or the list is empty.                               *)
(***************************************************************************)
C16_StopsAtFirstFailure ==
    last # None =>
        LET n == LeadingSuccesses(matchers, items, last.start)
        IN  /\ last.kind = "Match"
            /\ last = StateAfter(matchers, items, last.start, n)

C16_Witness ==
    /\ last # None
    /\ Len(matchers) = 2
    /\ _test_one(matchers[1], Match(items, last.start, last.start, 0)) = None
    /\ _test_one(matchers[2], Match(items, last.start, last.start, 0)) # None
    /\ last = Match(items, last.start, last.start, 0)

(***************************************************************************)
(* C17: a step with a literal, a built-in combinator or a matcher that     *)
(* returns a bool or a count leaves the start and the sequence of the      *)
(* state as they were and does not move its end back.                      *)
(***************************************************************************)
C17_StartFixedEndGrows ==
    (Called /\ CountOnly(matchers[1]) /\ step_out # None) =>
        /\ step_out.kind = "Match"
        /\ step_out.items = step_in.items
        /\ step_out.start = step_in.start
        /\ step_out.end >= step_in.end

C17_Witness ==
    /\ Called /\ CountOnly(matchers[1])
    /\ matchers[1].kind = "repeat"
    /\ step_in.start < step_in.end
    /\ step_out.kind = "Match"
    /\ step_out.start = step_in.start
    /\ step_out.end > step_in.end + 1

(***************************************************************************)
(* C18: repeat(m, min_n, max_n), for m a literal or any(), on a state that *)
(* is followed by a maximal run of k >= min_n items m matches, succeeds    *)
(* and consumes min(k, max_n) items, or k items when max_n is None.        *)
(***************************************************************************)
C18_RepeatConsumesRun ==
    (Called /\ matchers[1].kind = "repeat"
            /\ matchers[1].matcher.kind \in {"literal", "any"}) =>
        LET r == matchers[1]
            k == RunLength(r.matcher, items, step_in.end + 1)
        IN  k >= r.min_n =>
                Advanced(step_in, step_out,
                         IF r.max_n = None THEN k
                         ELSE IF k < r.max_n.val THEN k ELSE r.max_n.val)

(***************************************************************************)
(* C19: when, after the min_n required applications, the matcher returns a *)
(* state with the sequence, start and end of the current state, repeat     *)
(* stops and returns the current state.                                    *)
(***************************************************************************)
C19_RepeatStopsOnEqualState ==
    (Called /\ matchers[1].kind = "repeat") =>
        LET r == matchers[1]
            cur == repeat_min(r.matcher, r.min_n, step_in)
            more == IF r.max_n # None THEN r.max_n.val - r.min_n
                                      ELSE Len(cur.items) - cur.end
        IN  (cur # None /\ more > 0) =>
                LET new == _test_one(r.matcher, cur)
                IN  (new # None /\ new.items = cur.items /\ SameSpan(new, cur))
                        => step_out = cur

(***************************************************************************)
(* C20: _test_one adopts a Match a matcher returns as it is, fails on      *)
(* None, False and 0, advances by one on True and by n on a positive n;    *)
(* for a literal it advances by one exactly when the state has a next item *)
(* equal to the literal.                                                   *)
(***************************************************************************)
C20_TestOneNormalizes ==
    Called =>
        LET m == matchers[1]
        IN  /\ m.kind = "returns" =>
                  IF m.result \in {None, PyBool(FALSE), PyInt(0)} THEN step_out = None
                  ELSE IF m.result = PyBool(TRUE) THEN Advanced(step_in, step_out, 1)
                  ELSE Advanced(step_in, step_out, m.result.val)
            /\ m = same_span => step_out = same_span_lambda(step_in)
            /\ m = rewind => step_out = rewind_lambda(step_in)
            /\ m.kind = "literal" =>
                  IF step_in.end < Len(items) /\ items[step_in.end + 1] = m.val
                  THEN Advanced(step_in, step_out, 1)
                  ELSE step_out = None

C20_Witness ==
    /\ Called
    /\ matchers[1] = returns(PyInt(2))
    /\ Advanced(step_in, step_out, 2)
=============================================================================
